---------------------------- MODULE Spec2Model ----------------------------
(***************************************************************************)
(* The `pip cache` command: inventory, query and eviction of the wheel     *)
(* cache.  Two implementations are modelled side by side:                  *)
(*   "old" : src/pip/commands/cache.py            (Record namedtuple)      *)
(*   "new" : src/src/pip/_internal/commands/cache.py (WheelCacheRecord)    *)
(* One behaviour of the model is one invocation of CacheCommand.run on a   *)
(* cache directory chosen in Init.                                         *)
(***************************************************************************)
EXTENDS Integers, Sequences, FiniteSets, TLC

(***************************************************************************)
(* Strings are sequences of one-character strings, so that endswith,       *)
(* splitting, lower-casing and comparison are computed, not assumed.       *)
(***************************************************************************)
None == "None"

\* ord(c) for the characters that occur in the modelled names.
Ord(c) ==
    CASE c = "-" -> 45 [] c = "." -> 46
      [] c = "0" -> 48 [] c = "1" -> 49 [] c = "2" -> 50 [] c = "3" -> 51
      [] c = "A" -> 65 [] c = "B" -> 66 [] c = "C" -> 67
      [] c = "_" -> 95
      [] c = "a" -> 97 [] c = "b" -> 98 [] c = "c" -> 99
      [] c = "h" -> 104 [] c = "k" -> 107 [] c = "l" -> 108
      [] c = "n" -> 110 [] c = "p" -> 112 [] c = "t" -> 116
      [] c = "w" -> 119 [] c = "x" -> 120
      \* path components, compared by their first character
      [] c = "http" -> 104 [] c = "wheels" -> 119
      [] OTHER -> 0

\* str.lower() on one character.
Lower(c) ==
    CASE c = "A" -> "a" [] c = "B" -> "b" [] c = "C" -> "c" [] OTHER -> c

IsDigit(c) == c \in {"0", "1", "2", "3"}

DigitVal(c) == Ord(c) - 48

\* Python's  s1 < s2  on strings: lexicographic on code points.
RECURSIVE StrLess(_, _)
StrLess(s, t) ==
    IF t = <<>> THEN FALSE
    ELSE IF s = <<>> THEN TRUE
    ELSE IF Ord(Head(s)) # Ord(Head(t)) THEN Ord(Head(s)) < Ord(Head(t))
    ELSE StrLess(Tail(s), Tail(t))

\* s.endswith(suffix)
EndsWith(s, suffix) ==
    /\ Len(s) >= Len(suffix)
    /\ SubSeq(s, Len(s) - Len(suffix) + 1, Len(s)) = suffix

\* s.split(sep) for a one-character separator.
RECURSIVE SplitAcc(_, _, _)
SplitAcc(s, sep, cur) ==
    IF s = <<>> THEN <<cur>>
    ELSE IF Head(s) = sep THEN <<cur>> \o SplitAcc(Tail(s), sep, <<>>)
    ELSE SplitAcc(Tail(s), sep, Append(cur, Head(s)))

Split(s, sep) == SplitAcc(s, sep, <<>>)

WhlExt == <<".", "w", "h", "l">>

\* Faulty variant: every file of a directory is taken for a wheel.
IsWhlName_Any(fname) == TRUE

\* filename.endswith('.whl')
IsWhlName(fname) == EndsWith(fname, WhlExt)

(***************************************************************************)
(* Helpers of the installer that the cache command calls.                  *)
(***************************************************************************)
\* canonicalize_name: runs of "-", "_", "." become one "-", then lower-case.
RECURSIVE CanonAcc(_, _)
CanonAcc(s, inSep) ==
    IF s = <<>> THEN <<>>
    ELSE IF Head(s) \in {"-", "_", "."}
         THEN (IF inSep THEN <<>> ELSE <<"-">>) \o CanonAcc(Tail(s), TRUE)
         ELSE <<Lower(Head(s))>> \o CanonAcc(Tail(s), FALSE)

canonicalize_name(name) == CanonAcc(name, FALSE)

\* Wheel(filename): name-version(-build)-pyver-abi-plat.whl.  A filename that
\* does not parse raises InvalidWheelFilename: NoWheel, with valid = FALSE.
NoWheel == [valid |-> FALSE, name |-> <<>>, version |-> <<>>, filename |-> <<>>]

Wheel(fname) ==
    IF ~IsWhlName(fname) THEN NoWheel
    ELSE LET stem  == SubSeq(fname, 1, Len(fname) - Len(WhlExt))
             parts == Split(stem, "-")
         IN  IF /\ Len(parts) \in {5, 6}
                /\ \A i \in 1..Len(parts) : i # 2 => parts[i] # <<>>
                /\ (Len(parts) = 6 => IsDigit(Head(parts[3])))
             THEN [valid |-> TRUE, name |-> parts[1], version |-> parts[2],
                   filename |-> fname]
             ELSE NoWheel

\* version.parse: the release segment, dot-separated decimal numbers.
RECURSIVE DecAcc(_, _)
DecAcc(s, acc) ==
    IF s = <<>> THEN acc ELSE DecAcc(Tail(s), 10 * acc + DigitVal(Head(s)))

version_parse(vs) ==
    LET parts == Split(vs, ".")
    IN  [i \in 1..Len(parts) |-> DecAcc(parts[i], 0)]

\* Order of parsed versions: component-wise, missing components count as 0.
VerAt(v, i) == IF i <= Len(v) THEN v[i] ELSE 0

VerMaxLen(v, w) == IF Len(v) >= Len(w) THEN Len(v) ELSE Len(w)

VerLess(v, w) ==
    \E i \in 1..VerMaxLen(v, w) :
        /\ VerAt(v, i) < VerAt(w, i)
        /\ \A j \in 1..(i - 1) : VerAt(v, j) = VerAt(w, j)

VerEq(v, w) == \A i \in 1..VerMaxLen(v, w) : VerAt(v, i) = VerAt(w, i)

\* One clause of a specifier: [op, version].
ClauseHolds(v, c) ==
    CASE c.op = "==" -> VerEq(v, c.version)
      [] c.op = ">=" -> ~VerLess(v, c.version)
      [] c.op = "<"  -> VerLess(v, c.version)
      [] OTHER -> FALSE

\* version in specifier: every clause holds; the empty specifier holds all.
SpecifierContains(spec, v) == \A i \in 1..Len(spec) : ClauseHolds(v, spec[i])


(***************************************************************************)
(* The file system.  A directory is the sequence of its path components    *)
(* below options.cache_dir; a file is identified by a number, and FileTab  *)
(* gives its directory, its name, and what os.stat and open().read()       *)
(* return for it.  Times are counted in half days.                         *)
(***************************************************************************)
cache_dir == <<>>

\* Faulty variant: the walk starts at the cache directory itself.
wheels_cache_dir_NoJoin == cache_dir

\* os.path.join(options.cache_dir, 'wheels')
wheels_cache_dir == cache_dir \o <<"wheels">>

DirA == <<"wheels", "a">>
DirB == <<"wheels", "b">>
DirHttp == <<"http">>

\* Directories that may or may not exist; cache_dir and http always exist.
CacheDirs == {<<"wheels">>, DirA, DirB}

AllDirs == CacheDirs \cup {cache_dir, DirHttp}

FileTab ==
    <<
      \* A_b-1-p-n-a.whl
      [dir |-> DirA, size |-> 1024, atime |-> 0, content |-> None,
       name |-> <<"A","_","b","-","1","-","p","-","n","-","a",".","w","h","l">>],
      \* a_b-10-p-n-a.whl
      [dir |-> DirA, size |-> 1048576, atime |-> 2, content |-> None,
       name |-> <<"a","_","b","-","1","0","-","p","-","n","-","a",".","w","h","l">>],
      \* a_b-2-p-n-a.whl
      [dir |-> DirB, size |-> 300, atime |-> 6, content |-> None,
       name |-> <<"a","_","b","-","2","-","p","-","n","-","a",".","w","h","l">>],
      \* x.whl : not a wheel filename
      [dir |-> DirB, size |-> 7, atime |-> 1, content |-> None,
       name |-> <<"x",".","w","h","l">>],
      \* link : the origin-link sidecar of wheels/a
      [dir |-> DirA, size |-> 3, atime |-> 0, content |-> "url",
       name |-> <<"l","i","n","k">>],
      \* c-1-p-n-a.whl, in the http cache beside the wheel cache
      [dir |-> DirHttp, size |-> 5, atime |-> 0, content |-> None,
       name |-> <<"c","-","1","-","p","-","n","-","a",".","w","h","l">>]
    >>

FileIds == 1..Len(FileTab)

LinkName == <<"l","i","n","k">>

\* os.path.dirname / os.path.basename / os.path.join(dir, name)
dirname(f) == FileTab[f].dir
basename(f) == FileTab[f].name
FilePath(f) == <<dirname(f), basename(f)>>

\* The parsed wheel of a file (NoWheel: InvalidWheelFilename).
WheelOf == [f \in FileIds |-> Wheel(basename(f))]

WellFormed(f) == WheelOf[f].valid

\* d is top or below it.
IsUnder(d, top) == Len(d) >= Len(top) /\ SubSeq(d, 1, Len(top)) = top

Parent(d) == SubSeq(d, 1, Len(d) - 1)

(***************************************************************************)
(* Selectors: pkg_resources.Requirement.parse(arg) for the arguments       *)
(*   a-b      A.B==1      c  a_b>=2,<10                                     *)
(***************************************************************************)
ReqBare == [project_name |-> <<"a","-","b">>, specifier |-> <<>>]
ReqEq1 == [project_name |-> <<"A",".","B">>,
           specifier |-> <<[op |-> "==", version |-> <<1>>]>>]
ReqC == [project_name |-> <<"c">>, specifier |-> <<>>]
ReqRange == [project_name |-> <<"a","_","b">>,
             specifier |-> <<[op |-> ">=", version |-> <<2>>],
                             [op |-> "<", version |-> <<10>>]>>]

ArgChoices == {<<>>, <<ReqBare>>, <<ReqEq1>>, <<ReqC, ReqRange>>}

\* Bounds of the inputs.
MaxDays == 2
MaxNow == 6

\* timedelta(days=1), in half days.
DayLen == 2

VARIABLES
    dirs, files,        \* the disk: existing cache directories, existing files
    dirs0, files0,      \* the disk when the invocation started
    impl,               \* "old" or "new"
    options, reqs,      \* parsed options and selectors
    clock,              \* datetime.now()
    pc,                 \* position in run()
    toVisit, pending,   \* the walk: directories left, files listed in the current one
    data,               \* old: data['links'], data['wheel_filenames']
    scan,               \* new: the records built by the walk
    records,            \* the matched records
    response,           \* answer to the confirmation
    idx,                \* loop index of the deletion / listing loop
    listing,            \* the sorted records of log_results
    linkCache,          \* new: records whose link_origin has been computed
    linkReads,          \* number of reads of each directory's link file
    trace,              \* logger calls, prompts and os.remove calls, in order
    result,             \* "none" while running, then SUCCESS or the exception
    fn                  \* one call of human_readable_size, taken on its own

vars == <<dirs, files, dirs0, files0, impl, options, reqs, clock, pc, toVisit,
          pending, data, scan, records, response, idx, listing, linkCache,
          linkReads, trace, result, fn>>

\* The variables of an invocation of run().
runVars == <<dirs, files, dirs0, files0, impl, options, reqs, clock, pc,
             toVisit, pending, data, scan, records, response, idx, listing,
             linkCache, linkReads, trace, result>>

\* No call of human_readable_size is being followed.
FnIdle == [pc |-> "idle", nb |-> <<0>>, ip |-> <<0>>, fp |-> <<>>,
           unit_index |-> 0, divisions |-> 0,
           out |-> [unit_index |-> 0, whole |-> 0, tenth |-> 0]]

SUCCESS == "SUCCESS"

\* --not-accessed-since: <<>> when the option is absent (None), else <<days>>.
NasChoices == {<<>>} \cup {<<n>> : n \in 0..MaxDays}

OptionChoices(i) ==
    IF i = "old"
    THEN [all_wheels : BOOLEAN, summary : {FALSE}, remove : BOOLEAN,
          yes : BOOLEAN, not_accessed_since : {<<>>}]
    ELSE [all_wheels : {FALSE}, summary : BOOLEAN, remove : BOOLEAN,
          yes : BOOLEAN, not_accessed_since : NasChoices]

Init ==
    /\ dirs \in SUBSET CacheDirs
    /\ \A d \in dirs : Len(d) > 1 => Parent(d) \in dirs
    /\ files \in SUBSET FileIds
    /\ \A f \in files : dirname(f) \in dirs \cup {DirHttp}
    /\ dirs0 = dirs
    /\ files0 = files
    /\ impl \in {"old", "new"}
    /\ options \in OptionChoices(impl)
    /\ reqs \in ArgChoices
    /\ clock \in IF impl = "new" THEN (MaxNow - 1)..MaxNow ELSE {MaxNow}
    /\ pc = "start"
    /\ toVisit = {}
    /\ pending = <<>>
    /\ data = [links |-> <<>>, wheel_filenames |-> <<>>]
    /\ scan = <<>>
    /\ records = <<>>
    /\ response = None
    /\ idx = 0
    /\ listing = <<>>
    /\ linkCache = {}
    /\ linkReads = [d \in AllDirs |-> 0]
    /\ trace = <<>>
    /\ result = "none"
    /\ fn = FnIdle

Range(s) == {s[i] : i \in 1..Len(s)}

Event(kind, arg) == [kind |-> kind, arg |-> arg]

\* The files a directory listing returns that end in .whl, in listing order.
RECURSIVE SeqOfSet(_)
SeqOfSet(S) ==
    IF S = {} THEN <<>>
    ELSE LET m == CHOOSE x \in S : \A y \in S : x <= y
         IN  <<m>> \o SeqOfSet(S \ {m})

WhlFilesIn(d) ==
    SeqOfSet({f \in files : dirname(f) = d /\ IsWhlName(basename(f))})


(***************************************************************************)
(* Record fields (WheelCacheRecord.__init__, Record of iter_record).  A    *)
(* record is identified by its file_path; its other fields are fixed when  *)
(* it is built.                                                            *)
(***************************************************************************)
NoName == <<None>>

\* Faulty variant: the name is kept as written in the filename.
ProjectNameOf_Raw(w) == IF w.valid THEN w.name ELSE NoName

\* self.project_name = canonicalize_name(self.wheel.name), or None
ProjectNameOf(w) == IF w.valid THEN canonicalize_name(w.name) ELSE NoName

\* self.version = version.parse(self.wheel.version)
VersionOf(w) == version_parse(w.version)

project_name(f) == ProjectNameOf(WheelOf[f])

version(f) == VersionOf(WheelOf[f])

size(f) == FileTab[f].size

last_access_time(f) == FileTab[f].atime

link_path(f) == dirname(f)

\* The link file of directory d, if it exists: a set with at most one file.
LinkFileOf(d) == {f \in files : dirname(f) = d /\ basename(f) = LinkName}

ReadLink(d) ==
    IF LinkFileOf(d) = {} THEN None
    ELSE FileTab[CHOOSE f \in LinkFileOf(d) : TRUE].content

\* Faulty variant: the names are compared as written, not canonicalized.
RECURSIVE match_reqs_RawName(_, _)
match_reqs_RawName(f, rs) ==
    IF rs = <<>> THEN FALSE
    ELSE \/ /\ WheelOf[f].valid
            /\ WheelOf[f].name = Head(rs).project_name
            /\ SpecifierContains(Head(rs).specifier, version(f))
         \/ match_reqs_RawName(f, Tail(rs))

\* WheelCacheRecord.match_reqs: any(...) over the selectors, in order.
RECURSIVE RecordMatches(_, _, _)
RecordMatches(pname, ver, rs) ==
    IF rs = <<>> THEN FALSE
    ELSE \/ /\ pname = canonicalize_name(Head(rs).project_name)
            /\ SpecifierContains(Head(rs).specifier, ver)
         \/ RecordMatches(pname, ver, Tail(rs))

match_reqs(f, rs) == RecordMatches(project_name(f), version(f), rs)

\* The old filter: for req in reqs: ... continue / break, else: continue.
RECURSIVE OldWheelMatches(_, _)
OldWheelMatches(w, rs) ==
    IF rs = <<>> THEN FALSE
    ELSE IF canonicalize_name(w.name)
              # canonicalize_name(Head(rs).project_name)
         THEN OldWheelMatches(w, Tail(rs))
    ELSE IF ~SpecifierContains(Head(rs).specifier, version_parse(w.version))
         THEN OldWheelMatches(w, Tail(rs))
    ELSE TRUE

OldMatches(f, rs) == OldWheelMatches(WheelOf[f], rs)

\* if options.not_accessed_since:
AgeFilterApplies(nas) == nas # <<>> /\ nas[1] # 0

\* datetime.now() - timedelta(days=options.not_accessed_since)
min_last_access(now, nas) == now - nas[1] * DayLen

\* Faulty variant: each application also loses the first record.
AgeFilter_LosesFirst(recs, nas, now) ==
    IF recs = <<>> THEN recs ELSE Tail(recs)

\* records = filter(lambda r: r.last_access_time < min_last_access, records)
AgeFilter(recs, nas, now) ==
    IF AgeFilterApplies(nas)
    THEN LET Old(f) == last_access_time(f) < min_last_access(now, nas)
         IN  SelectSeq(recs, Old)
    ELSE recs

\* Faulty variant: the selector filter runs even without selectors.
ReqFilterApplies_Always(rs) == TRUE

\* if reqs:
ReqFilterApplies(rs) == rs # <<>>

ReqFilter(recs, rs) ==
    IF ReqFilterApplies(rs)
    THEN LET M(f) == match_reqs(f, rs) IN SelectSeq(recs, M)
    ELSE recs

\* The two filters of run(), applied in the order of the code.
RunFilter(recs, nas, now, rs) == ReqFilter(AgeFilter(recs, nas, now), rs)

\* Faulty variant: any answer confirms.
Confirmed_AnyAnswer(resp) == resp \in {"yes", "no"}

\* if response == 'yes':
Confirmed(resp) == resp = "yes"

\* Faulty variant: every round deletes the file of the last record.
RemoveTarget_Last(f) == records[Len(records)]

\* What record.remove() / os.remove(wheel_path) deletes.
RemoveTarget(f) == f

\* Faulty variant: the logged paths are joined with the cache root, not the record's directory.
wheel_paths_WrongDir(recs) ==
    [i \in 1..Len(recs) |-> <<<<"wheels">>, basename(recs[i])>>]

\* wheel_paths, the list logged before the deletion.
wheel_paths(recs) == [i \in 1..Len(recs) |-> FilePath(recs[i])]

\* Faulty variant: the usage check is missing.
ConflictingUsage_Never(all_wheels, args) == FALSE

\* elif args: raise CommandError  (under options.all_wheels)
ConflictingUsage(all_wheels, args) == all_wheels /\ args # <<>>

(***************************************************************************)
(* Reporting.                                                              *)
(***************************************************************************)
\* sort_key as Python compares the tuples (name, version, link_path).
KeyLess(f, g) ==
    LET a == WheelOf[f]
        b == WheelOf[g]
    IN  IF a.name # b.name THEN StrLess(a.name, b.name)
        ELSE IF a.version # b.version THEN StrLess(a.version, b.version)
        ELSE StrLess(link_path(f), link_path(g))

\* sorted(records, key=sort_key): stable insertion into a sorted list.
RECURSIVE InsertSorted(_, _)
InsertSorted(f, s) ==
    IF s = <<>> THEN <<f>>
    ELSE IF KeyLess(f, Head(s)) THEN <<f>> \o s
    ELSE <<Head(s)>> \o InsertSorted(f, Tail(s))

RECURSIVE SortedAcc(_, _)
SortedAcc(s, acc) ==
    IF s = <<>> THEN acc
    ELSE SortedAcc(SubSeq(s, 1, Len(s) - 1), InsertSorted(s[Len(s)], acc))

Sorted(s) == SortedAcc(s, <<>>)

(***************************************************************************)
(* human_readable_size.  A byte count is an unbounded Python int: it is    *)
(* held as its digits in base 1024, most significant first (zero is <<0>>).*)
(* A division by 1024.0 moves the last digit of the integer part to the    *)
(* front of the fraction, which is exact for the values considered.        *)
(***************************************************************************)
RECURSIVE ToDigits(_)
ToDigits(n) ==
    IF n < 1024 THEN <<n>> ELSE Append(ToDigits(n \div 1024), n % 1024)

RECURSIVE FromDigits(_)
FromDigits(ds) ==
    IF ds = <<>> THEN 0
    ELSE 1024 * FromDigits(SubSeq(ds, 1, Len(ds) - 1)) + ds[Len(ds)]

\* nb_bytes > 1024, for the integer part ip and the fraction digits fp.
Exceeds1024(ip, fp) ==
    \/ Len(ip) >= 3
    \/ /\ Len(ip) = 2
       /\ \/ ip[1] > 1
          \/ ip[2] > 0
          \/ \E i \in 1..Len(fp) : fp[i] > 0

\* Faulty variant: the boundary value 1024 is divided too.
HrsContinue_Geq(ip, fp, unit_index) ==
    (Len(ip) >= 2 \/ Exceeds1024(ip, fp)) /\ unit_index < 4

\* Faulty variant: one division too many is allowed.
HrsContinue_FiveDivisions(ip, fp, unit_index) ==
    Exceeds1024(ip, fp) /\ unit_index <= 4

\* while nb_bytes > 1024 and unit_index < 4:
HrsContinue(ip, fp, unit_index) == Exceeds1024(ip, fp) /\ unit_index < 4

\* nb_bytes = nb_bytes / 1024.0
DivideIp(ip) == IF Len(ip) = 1 THEN <<0>> ELSE SubSeq(ip, 1, Len(ip) - 1)

DivideFp(ip, fp) == <<ip[Len(ip)]>> \o fp

RECURSIVE HrsLoop(_, _, _)
HrsLoop(ip, fp, unit_index) ==
    IF HrsContinue(ip, fp, unit_index)
    THEN HrsLoop(DivideIp(ip), DivideFp(ip, fp), unit_index + 1)
    ELSE [ip |-> ip, fp |-> fp, unit_index |-> unit_index]

\* The fraction as num / den, trailing zero digits dropped.
RECURSIVE StripZeros(_)
StripZeros(fp) ==
    IF fp # <<>> /\ fp[Len(fp)] = 0
    THEN StripZeros(SubSeq(fp, 1, Len(fp) - 1))
    ELSE fp

RECURSIVE Pow1024(_)
Pow1024(k) == IF k = 0 THEN 1 ELSE 1024 * Pow1024(k - 1)

\* '%.1f' % (num / den): tenths, rounded half to even.
RoundTenths(num, den) ==
    LET q == (10 * num) \div den
        r == (10 * num) % den
    IN  IF 2 * r > den \/ (2 * r = den /\ q % 2 = 1) THEN q + 1 ELSE q

\* unit_formatter[unit_index] % (nb_bytes,): the unit ('%db', '%.1fkb', ...)
\* and the digits printed.
HrsFormat(ip, fp, unit_index) ==
    IF unit_index = 0
    THEN [unit_index |-> 0, whole |-> FromDigits(ip), tenth |-> 0]
    ELSE LET f == StripZeros(fp)
             t == RoundTenths(FromDigits(f), Pow1024(Len(f)))
         IN  [unit_index |-> unit_index,
              whole |-> FromDigits(ip) + (t \div 10),
              tenth |-> t % 10]

HrsOfDigits(ds) ==
    LET v == HrsLoop(ds, <<>>, 0) IN HrsFormat(v.ip, v.fp, v.unit_index)

human_readable_size(nb_bytes) == HrsOfDigits(ToDigits(nb_bytes))

\* Faulty variant: only the first record is counted in the total.
SumSizes_FirstOnly(recs) == IF recs = <<>> THEN 0 ELSE size(Head(recs))

\* total_size = sum(record.size for record in records)
RECURSIVE SumSizes(_)
SumSizes(recs) ==
    IF recs = <<>> THEN 0 ELSE size(Head(recs)) + SumSizes(Tail(recs))


(***************************************************************************)
(* CacheCommand.run, step by step.                                         *)
(***************************************************************************)
Log(kind, arg) == Append(trace, Event(kind, arg))

Finish(res) == pc' = "done" /\ result' = res

DirExists(d) == d \in dirs \cup {cache_dir, DirHttp}

\* The directories os.walk / os.path.walk visit from top: none when top does
\* not exist (the listing error is ignored).
WalkDirs(top) ==
    IF DirExists(top)
    THEN {d \in dirs \cup {cache_dir, DirHttp} : IsUnder(d, top)}
    ELSE {}

\* Entry of run(): the selectors are parsed and the walk starts.
Start ==
    /\ pc = "start"
    /\ pc' = "walk"
    /\ toVisit' = WalkDirs(wheels_cache_dir)
    /\ UNCHANGED fn
    /\ UNCHANGED <<dirs, files, dirs0, files0, impl, options, reqs, clock,
                   pending, data, scan, records, response, idx, listing,
                   linkCache, linkReads, trace, result>>

\* A directory is visited after its parent (top-down walk).
NextDir(d) == d \in toVisit /\ (Len(d) > 0 => Parent(d) \notin toVisit)

\* Faulty variant: a directory that holds wheel files is yielded again.
WalkDir_Revisit(d) ==
    /\ pc = "walk" /\ impl = "new"
    /\ pending = <<>>
    /\ NextDir(d)
    /\ toVisit' = IF WhlFilesIn(d) = <<>> THEN toVisit \ {d} ELSE toVisit
    /\ pending' = WhlFilesIn(d)
    /\ UNCHANGED fn
    /\ UNCHANGED <<dirs, files, dirs0, files0, impl, options, reqs, clock, pc,
                   data, scan, records, response, idx, listing, linkCache,
                   linkReads, trace, result>>

\* new: os.walk yields the next directory with its file names.
WalkDir(d) ==
    /\ pc = "walk" /\ impl = "new"
    /\ pending = <<>>
    /\ NextDir(d)
    /\ toVisit' = toVisit \ {d}
    /\ pending' = WhlFilesIn(d)
    /\ UNCHANGED fn
    /\ UNCHANGED <<dirs, files, dirs0, files0, impl, options, reqs, clock, pc,
                   data, scan, records, response, idx, listing, linkCache,
                   linkReads, trace, result>>

\* Faulty variant: os.stat succeeds on a file that is gone.
StatFails_Never(f) == FALSE

\* stat = os.stat(file_path): raises OSError when the file does not exist.
StatFails(f) == f \notin files

\* new: records.append(WheelCacheRecord(os.path.join(dirpath, filename)))
NewRecord ==
    /\ pc = "walk" /\ impl = "new"
    /\ pending # <<>>
    /\ LET f == Head(pending)
           warned == IF WheelOf[f].valid THEN trace ELSE Log("warning", f)
       IN  /\ trace' = warned
           /\ IF StatFails(f)
              THEN /\ Finish("OSError")
                   /\ UNCHANGED <<scan, pending>>
              ELSE /\ scan' = Append(scan, f)
                   /\ pending' = Tail(pending)
                   /\ UNCHANGED <<pc, result>>
    /\ UNCHANGED fn
    /\ UNCHANGED <<dirs, files, dirs0, files0, impl, options, reqs, clock,
                   toVisit, data, records, response, idx, listing, linkCache,
                   linkReads>>

\* Faulty variant: the deletion branch is taken without --remove.
RemoveMode_Always(opts) == TRUE

\* if options.remove:  (old: if not options.remove: ... else)
RemoveMode(opts) == opts.remove

\* new: the age filter, the selector filter, records = list(records).
Filter ==
    /\ pc = "walk" /\ impl = "new"
    /\ pending = <<>> /\ toVisit = {}
    /\ records' = RunFilter(scan, options.not_accessed_since, clock, reqs)
    /\ pc' = IF RemoveMode(options) THEN "remove" ELSE "report"
    /\ UNCHANGED fn
    /\ UNCHANGED <<dirs, files, dirs0, files0, impl, options, reqs, clock,
                   toVisit, pending, data, scan, response, idx, listing,
                   linkCache, linkReads, trace, result>>

\* Faulty variant: a directory is recorded only when it has a link file.
LinksWith_OnlyRead(links, top_dir, link) ==
    IF link = None THEN links ELSE (top_dir :> link) @@ links

\* data['links'][top_dir] = link
LinksWith(links, top_dir, link) == (top_dir :> link) @@ links

\* old: collect_infos(data, top_dir, names) for the next directory.
CollectInfos(d) ==
    /\ pc = "walk" /\ impl = "old"
    /\ NextDir(d)
    /\ toVisit' = toVisit \ {d}
    /\ LET link == ReadLink(d)
           wheel_files == WhlFilesIn(d)
       IN  /\ data' = IF wheel_files # <<>> \/ link # None
                      THEN [links |-> LinksWith(data.links, d, link),
                            wheel_filenames |->
                                data.wheel_filenames \o wheel_files]
                      ELSE data
           /\ linkReads' = IF LinkFileOf(d) # {}
                           THEN [linkReads EXCEPT ![d] = @ + 1]
                           ELSE linkReads
    /\ UNCHANGED fn
    /\ UNCHANGED <<dirs, files, dirs0, files0, impl, options, reqs, clock, pc,
                   pending, scan, records, response, idx, listing, linkCache,
                   trace, result>>

\* Faulty variant: the early return after the statistics is missing.
BasicStatsOnly_Never(all_wheels, args) == FALSE

\* if not options.all_wheels: if not args:
BasicStatsOnly(all_wheels, args) == ~all_wheels /\ args = <<>>

\* old: after the walk, the basic statistics, the usage error, or the records.
OldDispatch ==
    /\ pc = "walk" /\ impl = "old"
    /\ toVisit = {}
    /\ IF BasicStatsOnly(options.all_wheels, reqs)
       THEN \* log_basic_stats(data); return SUCCESS
            /\ trace' = Log("stats",
                            [wheel_nb |-> Len(data.wheel_filenames),
                             link_nb |-> Cardinality(DOMAIN data.links)])
            /\ Finish(SUCCESS)
            /\ UNCHANGED idx
       ELSE IF ConflictingUsage(options.all_wheels, reqs)
       THEN /\ Finish("CommandError")
            /\ UNCHANGED <<trace, idx>>
       ELSE /\ pc' = "iter"
            /\ idx' = 1
            /\ UNCHANGED <<trace, result>>
    /\ UNCHANGED fn
    /\ UNCHANGED <<dirs, files, dirs0, files0, impl, options, reqs, clock,
                   toVisit, pending, data, scan, records, response, listing,
                   linkCache, linkReads>>

\* old: one round of  for record in iter_record(data): ... records.append
IterRecord ==
    /\ pc = "iter"
    /\ idx <= Len(data.wheel_filenames)
    /\ LET f == data.wheel_filenames[idx]
       IN  IF link_path(f) \notin DOMAIN data.links
           THEN /\ Finish("KeyError")
                /\ UNCHANGED <<trace, records, idx>>
           ELSE IF ~WheelOf[f].valid
           THEN /\ trace' = Log("warning", f)
                /\ idx' = idx + 1
                /\ UNCHANGED <<records, pc, result>>
           ELSE IF StatFails(f)
           THEN /\ Finish("OSError")
                /\ UNCHANGED <<trace, records, idx>>
           ELSE /\ records' = IF options.all_wheels \/ OldMatches(f, reqs)
                              THEN Append(records, f)
                              ELSE records
                /\ idx' = idx + 1
                /\ UNCHANGED <<trace, pc, result>>
    /\ UNCHANGED fn
    /\ UNCHANGED <<dirs, files, dirs0, files0, impl, options, reqs, clock,
                   toVisit, pending, data, scan, response, listing, linkCache,
                   linkReads>>

IterDone ==
    /\ pc = "iter"
    /\ idx > Len(data.wheel_filenames)
    /\ pc' = IF RemoveMode(options) THEN "remove" ELSE "report"
    /\ UNCHANGED fn
    /\ UNCHANGED <<dirs, files, dirs0, files0, impl, options, reqs, clock,
                   toVisit, pending, data, scan, records, response, idx,
                   listing, linkCache, linkReads, trace, result>>

\* logger.info('Deleting:...'), then the answer is taken from --yes or asked.
LogDeleting ==
    /\ pc = "remove"
    /\ trace' = Log("deleting", wheel_paths(records))
    /\ IF options.yes
       THEN response' = "yes" /\ pc' = "delete" /\ idx' = 1
       ELSE pc' = "ask" /\ UNCHANGED <<response, idx>>
    /\ UNCHANGED fn
    /\ UNCHANGED <<dirs, files, dirs0, files0, impl, options, reqs, clock,
                   toVisit, pending, data, scan, records, listing, linkCache,
                   linkReads, result>>

\* Faulty variant: an answer other than 'yes' ends the invocation in error.
Ask_DeclineIsError(answer) ==
    /\ pc = "ask"
    /\ trace' = Log("prompt", answer)
    /\ response' = answer
    /\ IF Confirmed(answer)
       THEN pc' = "delete" /\ idx' = 1 /\ UNCHANGED result
       ELSE Finish("CommandError") /\ UNCHANGED idx
    /\ UNCHANGED fn
    /\ UNCHANGED <<dirs, files, dirs0, files0, impl, options, reqs, clock,
                   toVisit, pending, data, scan, records, listing, linkCache,
                   linkReads>>

\* response = ask('Proceed (yes/no)? ', ('yes', 'no'))
Ask(answer) ==
    /\ pc = "ask"
    /\ trace' = Log("prompt", answer)
    /\ response' = answer
    /\ IF Confirmed(answer)
       THEN pc' = "delete" /\ idx' = 1 /\ UNCHANGED result
       ELSE Finish(SUCCESS) /\ UNCHANGED idx
    /\ UNCHANGED fn
    /\ UNCHANGED <<dirs, files, dirs0, files0, impl, options, reqs, clock,
                   toVisit, pending, data, scan, records, listing, linkCache,
                   linkReads>>

\* Faulty variant: a failing os.remove is caught and the loop goes on.
Remove_Swallow(ok) ==
    /\ pc = "delete"
    /\ idx <= Len(records)
    /\ LET f == RemoveTarget(records[idx])
       IN  IF ok /\ f \in files
           THEN /\ files' = files \ {f}
                /\ trace' = Log("remove", f)
           ELSE /\ trace' = Log("remove_failed", f)
                /\ UNCHANGED files
    /\ idx' = idx + 1
    /\ UNCHANGED fn
    /\ UNCHANGED <<dirs, dirs0, files0, impl, options, reqs, clock, toVisit,
                   pending, data, scan, records, response, listing, linkCache,
                   linkReads, pc, result>>

\* One round of the deletion loop: os.remove succeeds, or raises OSError
\* (it must raise when the file is gone).
Remove(ok) ==
    /\ pc = "delete"
    /\ idx <= Len(records)
    /\ LET f == RemoveTarget(records[idx])
       IN  IF ok /\ f \in files
           THEN /\ files' = files \ {f}
                /\ trace' = Log("remove", f)
                /\ idx' = idx + 1
                /\ UNCHANGED <<pc, result>>
           ELSE /\ trace' = Log("remove_failed", f)
                /\ Finish("OSError")
                /\ UNCHANGED <<files, idx>>
    /\ UNCHANGED fn
    /\ UNCHANGED <<dirs, dirs0, files0, impl, options, reqs, clock, toVisit,
                   pending, data, scan, records, response, listing, linkCache,
                   linkReads>>

\* Faulty variant: the deletion loop stops one record early.
RemoveDone_OffByOne ==
    /\ pc = "delete"
    /\ idx >= Len(records)
    /\ Finish(SUCCESS)
    /\ UNCHANGED fn
    /\ UNCHANGED <<dirs, files, dirs0, files0, impl, options, reqs, clock,
                   toVisit, pending, data, scan, records, response, idx,
                   listing, linkCache, linkReads, trace>>

RemoveDone ==
    /\ pc = "delete"
    /\ idx > Len(records)
    /\ Finish(SUCCESS)
    /\ UNCHANGED fn
    /\ UNCHANGED <<dirs, files, dirs0, files0, impl, options, reqs, clock,
                   toVisit, pending, data, scan, records, response, idx,
                   listing, linkCache, linkReads, trace>>

\* new: --summary without --remove.
Summary ==
    /\ pc = "report"
    /\ options.summary
    /\ \E total_size \in {SumSizes(records)} :
          \E text \in {human_readable_size(total_size)} :
             trace' = Log("summary", [count |-> Len(records), size |-> text])
    /\ Finish(SUCCESS)
    /\ UNCHANGED fn
    /\ UNCHANGED <<dirs, files, dirs0, files0, impl, options, reqs, clock,
                   toVisit, pending, data, scan, records, response, idx,
                   listing, linkCache, linkReads>>

\* log_results: the sort.  sort_key reads record.wheel.name, which raises
\* AttributeError on a record whose wheel is None.
SortResults ==
    /\ pc = "report"
    /\ ~options.summary
    /\ IF \E i \in 1..Len(records) : ~WheelOf[records[i]].valid
       THEN Finish("AttributeError") /\ UNCHANGED <<listing, idx>>
       ELSE /\ listing' = Sorted(records)
            /\ idx' = 1
            /\ pc' = "list"
            /\ UNCHANGED result
    /\ UNCHANGED fn
    /\ UNCHANGED <<dirs, files, dirs0, files0, impl, options, reqs, clock,
                   toVisit, pending, data, scan, records, response, linkCache,
                   linkReads, trace>>

\* Faulty variant: the value read is kept per directory.
LinkCacheKey_Directory(f) == link_path(f)

\* @cached_property def link_origin(self): the value is kept on the record.
LinkCacheKey(f) == f

\* cached_property: the number of reads of the link file an access makes.
\* The first access of a key calls the function, which opens the file when
\* it exists; later accesses return the value kept.
MemoReads(cache, key, exists) == IF key \in cache \/ ~exists THEN 0 ELSE 1

\* The link shown for an entry: record.link (old, from data['links']) or
\* record.link_origin (new, read on the record's first access).
EntryLink(f) ==
    IF impl = "old" THEN data.links[link_path(f)] ELSE ReadLink(link_path(f))

\* log_results: one round of the loop over the sorted records.
LogEntry ==
    /\ pc = "list"
    /\ idx <= Len(listing)
    /\ LET f == listing[idx]
           current_name == IF idx = 1 THEN NoName
                           ELSE WheelOf[listing[idx - 1]].name
           header == IF WheelOf[f].name # current_name
                     THEN <<Event("header", WheelOf[f].name)>>
                     ELSE <<>>
           entry == Event("entry",
                          [file |-> f, path |-> link_path(f),
                           link |-> EntryLink(f),
                           size |-> human_readable_size(size(f)),
                           last_used |-> last_access_time(f)])
           \* new: `if record.link_origin:` (line 163), then the argument of
           \* the log call (line 164) when the link is not empty.
           exists == LinkFileOf(link_path(f)) # {}
           k == LinkCacheKey(f)
           first == MemoReads(linkCache, k, exists)
           second == IF EntryLink(f) # None
                     THEN MemoReads(linkCache \cup {k}, k, exists)
                     ELSE 0
       IN  /\ trace' = trace \o header \o <<entry>>
           /\ IF impl = "new"
              THEN /\ linkCache' = linkCache \cup {k}
                   /\ linkReads' = [linkReads EXCEPT
                                       ![link_path(f)] = @ + first + second]
              ELSE UNCHANGED <<linkCache, linkReads>>
    /\ idx' = idx + 1
    /\ UNCHANGED fn
    /\ UNCHANGED <<dirs, files, dirs0, files0, impl, options, reqs, clock, pc,
                   toVisit, pending, data, scan, records, response, listing,
                   result>>

\* Faulty variant: log_results never returns.
ListDone_Never == FALSE /\ UNCHANGED vars

\* log_results returns; return SUCCESS
ListDone ==
    /\ pc = "list"
    /\ idx > Len(listing)
    /\ Finish(SUCCESS)
    /\ UNCHANGED fn
    /\ UNCHANGED <<dirs, files, dirs0, files0, impl, options, reqs, clock,
                   toVisit, pending, data, scan, records, response, idx,
                   listing, linkCache, linkReads, trace>>

Next ==
    \/ Start
    \/ \E d \in AllDirs : WalkDir(d)
    \/ NewRecord
    \/ Filter
    \/ \E d \in AllDirs : CollectInfos(d)
    \/ OldDispatch
    \/ IterRecord
    \/ IterDone
    \/ LogDeleting
    \/ \E answer \in {"yes", "no"} : Ask(answer)
    \/ \E ok \in BOOLEAN : Remove(ok)
    \/ RemoveDone
    \/ Summary
    \/ SortResults
    \/ LogEntry
    \/ ListDone

Spec == Init /\ [][Next]_vars

(***************************************************************************)
(* run() is single-threaded and synchronous: a step that can be taken is   *)
(* taken.  The one step that waits for something outside the program is    *)
(* the confirmation prompt, so no progress is assumed for it.              *)
(***************************************************************************)
RunStep ==
    \/ Start
    \/ \E d \in AllDirs : WalkDir(d)
    \/ NewRecord
    \/ Filter
    \/ \E d \in AllDirs : CollectInfos(d)
    \/ OldDispatch
    \/ IterRecord
    \/ IterDone
    \/ LogDeleting
    \/ \E ok \in BOOLEAN : Remove(ok)
    \/ RemoveDone
    \/ Summary
    \/ SortResults
    \/ LogEntry
    \/ ListDone

\* The invocations followed to their end: every cache content, option and
\* selector choice, without an age cutoff.
InitLive ==
    /\ Init
    /\ options.not_accessed_since = <<>>
    /\ clock = MaxNow

SpecLive == InitLive /\ [][Next]_vars /\ WF_vars(RunStep)

(***************************************************************************)
(* human_readable_size on its own: one call, one loop round per step, on   *)
(* byte counts of up to MaxDigits digits in base 1024.                     *)
(***************************************************************************)
MaxDigits == 6

TopDigits == {1, 2, 1023}
SecondDigits == {0, 1, 512, 1023}
ThirdDigits == {0, 1}

Zeros(k) == [i \in 1..k |-> 0]

HrsInputs ==
    {<<d>> : d \in {0} \cup TopDigits \cup SecondDigits}
    \cup {<<a, b>> : a \in TopDigits, b \in SecondDigits}
    \cup UNION {{<<a, b, c>> \o Zeros(k) :
                    a \in TopDigits, b \in SecondDigits, c \in ThirdDigits} :
                k \in 0..(MaxDigits - 3)}

InitHrs ==
    /\ dirs = {} /\ files = {} /\ dirs0 = {} /\ files0 = {}
    /\ impl = "new"
    /\ options = [all_wheels |-> FALSE, summary |-> FALSE, remove |-> FALSE,
                  yes |-> FALSE, not_accessed_since |-> <<>>]
    /\ reqs = <<>>
    /\ clock = MaxNow
    /\ pc = "idle"
    /\ toVisit = {}
    /\ pending = <<>>
    /\ data = [links |-> <<>>, wheel_filenames |-> <<>>]
    /\ scan = <<>>
    /\ records = <<>>
    /\ response = None
    /\ idx = 0
    /\ listing = <<>>
    /\ linkCache = {}
    /\ linkReads = [d \in AllDirs |-> 0]
    /\ trace = <<>>
    /\ result = "none"
    /\ \E ds \in HrsInputs :
          fn = [pc |-> "loop", nb |-> ds, ip |-> ds, fp |-> <<>>,
                unit_index |-> 0, divisions |-> 0,
                out |-> [unit_index |-> 0, whole |-> 0, tenth |-> 0]]

\* One round of the while loop.
HrsDivide ==
    /\ fn.pc = "loop"
    /\ HrsContinue(fn.ip, fn.fp, fn.unit_index)
    /\ fn' = [fn EXCEPT !.ip = DivideIp(fn.ip),
                        !.fp = DivideFp(fn.ip, fn.fp),
                        !.unit_index = @ + 1,
                        !.divisions = @ + 1]
    /\ UNCHANGED runVars

\* The loop ends and the formatted value is returned.
HrsReturn ==
    /\ fn.pc = "loop"
    /\ ~HrsContinue(fn.ip, fn.fp, fn.unit_index)
    /\ fn' = [fn EXCEPT !.pc = "done",
                        !.out = HrsFormat(fn.ip, fn.fp, fn.unit_index)]
    /\ UNCHANGED runVars

NextHrs == HrsDivide \/ HrsReturn

SpecHrs == InitHrs /\ [][NextHrs]_vars

(***************************************************************************)
(* The filters on their own: every list of records over the wheel files,   *)
(* every selector choice and age cutoff; the filters are applied to the    *)
(* list, then to their own result.                                         *)
(***************************************************************************)
\* No invocation of run() is being followed.
RunIdle ==
    /\ dirs = {} /\ files = {} /\ dirs0 = {} /\ files0 = {}
    /\ impl = "new"
    /\ options = [all_wheels |-> FALSE, summary |-> FALSE, remove |-> FALSE,
                  yes |-> FALSE, not_accessed_since |-> <<>>]
    /\ reqs = <<>>
    /\ clock = MaxNow
    /\ pc = "idle"
    /\ toVisit = {}
    /\ pending = <<>>
    /\ data = [links |-> <<>>, wheel_filenames |-> <<>>]
    /\ scan = <<>>
    /\ records = <<>>
    /\ response = None
    /\ idx = 0
    /\ listing = <<>>
    /\ linkCache = {}
    /\ linkReads = [d \in AllDirs |-> 0]
    /\ trace = <<>>
    /\ result = "none"

WheelFiles == {f \in FileIds : IsWhlName(basename(f))}

InitFilter ==
    /\ RunIdle
    /\ \E S \in SUBSET WheelFiles, rs \in ArgChoices, nas \in NasChoices,
          now \in (MaxNow - 1)..MaxNow :
          fn = [pc |-> "input", recs |-> SeqOfSet(S), reqs |-> rs,
                nas |-> nas, now |-> now, once |-> <<>>, twice |-> <<>>]

\* The filters applied to the records.
FilterOnce ==
    /\ fn.pc = "input"
    /\ fn' = [fn EXCEPT !.pc = "once",
                        !.once = RunFilter(fn.recs, fn.nas, fn.now, fn.reqs)]
    /\ UNCHANGED runVars

\* The filters applied to their own result.
FilterTwice ==
    /\ fn.pc = "once"
    /\ fn' = [fn EXCEPT !.pc = "twice",
                        !.twice = RunFilter(fn.once, fn.nas, fn.now, fn.reqs)]
    /\ UNCHANGED runVars

NextFilter == FilterOnce \/ FilterTwice

SpecFilter == InitFilter /\ [][NextFilter]_vars

(***************************************************************************)
(* Selector matching on its own: a parsed wheel and a list of selectors    *)
(* are matched as given, then with one name (the wheel's, or one            *)
(* selector's) replaced by a spelling that differs only in case or in      *)
(* "-" / "_".                                                              *)
(***************************************************************************)
\* The characters a character may be exchanged with.
AltChars(c) ==
    CASE c \in {"a", "A"} -> {"a", "A"}
      [] c \in {"b", "B"} -> {"b", "B"}
      [] c \in {"c", "C"} -> {"c", "C"}
      [] c \in {"-", "_"} -> {"-", "_"}
      [] OTHER -> {c}

\* The spellings of a name that differ only in case or separator.
NameVariants(name) ==
    {v \in [1..Len(name) -> UNION {AltChars(name[i]) : i \in 1..Len(name)}] :
        \A i \in 1..Len(name) : v[i] \in AltChars(name[i])}

MatchWheels == {WheelOf[f] : f \in {g \in FileIds : WheelOf[g].valid}}

MatchReqs == (ArgChoices \ {<<>>}) \cup {<<ReqRange>>, <<ReqC>>}

InitMatch ==
    /\ RunIdle
    /\ \E w \in MatchWheels, rs \in MatchReqs, side \in {"record", "selector"} :
          \E at \in 1..Len(rs) :
             \E v \in NameVariants(IF side = "record" THEN w.name
                                   ELSE rs[at].project_name) :
                fn = [pc |-> "input", wheel |-> w, reqs |-> rs, side |-> side,
                      at |-> at, variant |-> v,
                      given |-> [new |-> FALSE, old |-> FALSE],
                      varied |-> [new |-> FALSE, old |-> FALSE]]

\* Both implementations' match of a wheel against the selectors.
MatchBoth(w, rs) ==
    [new |-> RecordMatches(ProjectNameOf(w), VersionOf(w), rs),
     old |-> OldWheelMatches(w, rs)]

MatchGiven ==
    /\ fn.pc = "input"
    /\ fn' = [fn EXCEPT !.pc = "given", !.given = MatchBoth(fn.wheel, fn.reqs)]
    /\ UNCHANGED runVars

MatchVaried ==
    /\ fn.pc = "given"
    /\ LET w == IF fn.side = "record"
                THEN [fn.wheel EXCEPT !.name = fn.variant]
                ELSE fn.wheel
           rs == IF fn.side = "selector"
                 THEN [fn.reqs EXCEPT ![fn.at].project_name = fn.variant]
                 ELSE fn.reqs
       IN  fn' = [fn EXCEPT !.pc = "varied", !.varied = MatchBoth(w, rs)]
    /\ UNCHANGED runVars

NextMatch == MatchGiven \/ MatchVaried

SpecMatch == InitMatch /\ [][NextMatch]_vars

(***************************************************************************)
(* A second invocation on the same cache directory.  Nothing locks the     *)
(* directory; of the other invocation only its effect on the disk is       *)
(* followed: while this one runs, its deletion loop removes up to          *)
(* MaxOtherDeletes wheel files.                                            *)
(***************************************************************************)
MaxOtherDeletes == 1

\* The files this invocation has deleted itself.
OwnDeleted ==
    {trace[i].arg : i \in {j \in 1..Len(trace) : trace[j].kind = "remove"}}

\* The files deleted by the other invocation.
OtherDeleted == (files0 \ files) \ OwnDeleted

\* One round of the other invocation's deletion loop.
OtherRemove(f) ==
    /\ pc \notin {"start", "done"}
    /\ f \in files
    /\ IsUnder(dirname(f), <<"wheels">>)
    /\ IsWhlName(basename(f))
    /\ Cardinality(OtherDeleted) < MaxOtherDeletes
    /\ files' = files \ {f}
    /\ UNCHANGED fn
    /\ UNCHANGED <<dirs, dirs0, files0, impl, options, reqs, clock, pc,
                   toVisit, pending, data, scan, records, response, idx,
                   listing, linkCache, linkReads, trace, result>>

NextRace == Next \/ \E f \in FileIds : OtherRemove(f)

\* The invocations raced against: every cache content, option and selector
\* choice, without an age cutoff.
InitRace ==
    /\ Init
    /\ options.not_accessed_since = <<>>
    /\ clock = MaxNow

SpecRace == InitRace /\ [][NextRace]_vars


(***************************************************************************)
(* Properties.                                                             *)
(***************************************************************************)
WheelsRoot == <<"wheels">>

\* The files of the wheel cache, before the invocation, that end in .whl.
WhlOnDisk == {f \in files0 : IsUnder(dirname(f), WheelsRoot)
                             /\ IsWhlName(basename(f))}

StatsOnly == impl = "old" /\ ~options.all_wheels /\ reqs = <<>>

Conflict == impl = "old" /\ options.all_wheels /\ reqs # <<>>

\* The matched list is complete: the scan and the filters have run.
FilterDone ==
    /\ pc \notin {"start", "walk", "iter"}
    /\ ~StatsOnly
    /\ ~Conflict
    /\ result \in {"none", SUCCESS, "AttributeError"}
       \/ (result = "OSError" /\ response = "yes")

Matched == Range(records)

Removed == {trace[i].arg : i \in {j \in 1..Len(trace) : trace[j].kind = "remove"}}

NoDeletionFailed == \A i \in 1..Len(trace) : trace[i].kind # "remove_failed"

\* C1: no record that is reported, counted or deleted has a filename that
\* fails to parse as a wheel filename.
C1_NoMalformedMatched ==
    /\ \A f \in Matched : WellFormed(f)
    /\ \A f \in Removed : WellFormed(f)

\* C2: with accepted options, whatever the cache holds, the invocation ends
\* with the success code (a failing os.remove apart).
C2_AlwaysSuccess ==
    (pc = "done" /\ ~Conflict /\ NoDeletionFailed) => result = SUCCESS

\* C3: --remove without --yes and an answer other than 'yes': the files on
\* disk are those before the invocation.
C3_DeclineDeletesNothing ==
    (options.remove /\ ~options.yes /\ response # "yes")
        => (files = files0 /\ dirs = dirs0)

C3_Witness ==
    /\ pc = "done" /\ options.remove /\ ~options.yes
    /\ response = "no"
    /\ Len(records) >= 2

\* C4: a confirmed --remove in which no deletion fails leaves exactly the
\* files before minus the matched records' files.
C4_ConfirmedRemovesMatched ==
    (pc = "done" /\ options.remove /\ response = "yes" /\ result = SUCCESS)
        => (files = files0 \ Matched /\ Matched \subseteq files0)

C4_Witness ==
    /\ pc = "done" /\ options.remove /\ response = "yes" /\ result = SUCCESS
    /\ Len(records) >= 2
    /\ \E f \in files : f \in WhlOnDisk

\* C5: the log entry listing all target paths precedes the prompt and every
\* deletion (attempt).
C5_AuditBeforeDelete ==
    /\ \A i \in 1..Len(trace) :
          trace[i].kind \in {"prompt", "remove", "remove_failed"}
              => \E j \in 1..(i - 1) :
                    /\ trace[j].kind = "deleting"
                    /\ trace[j].arg = [k \in 1..Len(records) |->
                                           FilePath(records[k])]
    /\ files # files0 => \E j \in 1..Len(trace) : trace[j].kind = "deleting"

C5_Witness ==
    /\ Len(trace) >= 3
    /\ \E j \in 1..Len(trace) :
          /\ trace[j].kind = "deleting"
          /\ Len(trace[j].arg) >= 2
          /\ j + 2 <= Len(trace)
          /\ trace[j + 1].kind = "prompt"
          /\ trace[j + 2].kind = "remove"

\* The files the walk has found.
Scanned == IF impl = "new" THEN Range(scan) ELSE Range(data.wheel_filenames)

SelectorMatches(f, r) ==
    /\ WellFormed(f)
    /\ canonicalize_name(WheelOf[f].name) = canonicalize_name(r.project_name)
    /\ SpecifierContains(r.specifier, version_parse(WheelOf[f].version))

\* C6: with selectors and no age cutoff, a record is matched iff some
\* selector has its canonical name and a specifier containing its version;
\* a bare name matches every version of the package.
C6_SelectorMatch ==
    (FilterDone /\ reqs # <<>> /\ options.not_accessed_since = <<>>)
        => /\ Matched \subseteq Scanned
           /\ \A f \in WhlOnDisk :
                 f \in Matched <=> \E i \in 1..Len(reqs) :
                                      SelectorMatches(f, reqs[i])
           /\ \A i \in 1..Len(reqs) :
                 reqs[i].specifier = <<>> =>
                     \A f \in WhlOnDisk :
                         (WellFormed(f)
                          /\ canonicalize_name(WheelOf[f].name)
                               = canonicalize_name(reqs[i].project_name))
                             => f \in Matched

C6_Witness ==
    /\ FilterDone /\ pc = "done"
    /\ reqs = <<ReqC, ReqRange>>
    /\ options.not_accessed_since = <<>>
    /\ Matched # {}
    /\ \E f \in WhlOnDisk \ Matched : WellFormed(f)

\* C7: with --not-accessed-since N, N = 0 included, the matched records are
\* exactly those passing the selectors and last accessed before now - N days.
C7_AgeFilterExact ==
    (impl = "new" /\ FilterDone /\ options.not_accessed_since # <<>>)
        => Matched =
             {f \in Range(scan) :
                 /\ reqs = <<>> \/ \E i \in 1..Len(reqs) :
                                      SelectorMatches(f, reqs[i])
                 /\ last_access_time(f)
                      < clock - options.not_accessed_since[1] * DayLen}

\* C8: without selectors and age cutoff every well-formed record of the
\* cache is matched.
C8_NoSelectorAllMatched ==
    (FilterDone /\ reqs = <<>> /\ options.not_accessed_since = <<>>)
        => \A f \in WhlOnDisk : WellFormed(f) => f \in Matched

C8_Witness ==
    /\ FilterDone /\ pc = "done"
    /\ reqs = <<>> /\ options.not_accessed_since = <<>>
    /\ Cardinality({f \in WhlOnDisk : WellFormed(f)}) >= 2

\* C9: when the cache root does not exist the scan is empty, nothing is
\* raised, a summary reports zero wheels, and the success code is returned.
C9_MissingRoot ==
    (WheelsRoot \notin dirs0 /\ ~Conflict)
        => /\ scan = <<>> /\ data.wheel_filenames = <<>> /\ records = <<>>
           /\ result \in {"none", SUCCESS}
           /\ pc = "done" => result = SUCCESS
           /\ \A i \in 1..Len(trace) :
                 /\ trace[i].kind = "summary"
                      => /\ trace[i].arg.count = 0
                         /\ trace[i].arg.size
                              = [unit_index |-> 0, whole |-> 0, tenth |-> 0]
                 /\ trace[i].kind = "stats"
                      => trace[i].arg = [wheel_nb |-> 0, link_nb |-> 0]

C9_Witness ==
    /\ WheelsRoot \notin dirs0
    /\ files0 # {}
    /\ pc = "done" /\ result = SUCCESS
    /\ options.summary /\ ~options.remove
    /\ Len(trace) = 1 /\ trace[1].kind = "summary"

\* C10: selectors together with --all end in a command error and delete no
\* file, also with --remove --yes.
C10_ConflictIsError ==
    Conflict
        => /\ files = files0
           /\ Removed = {}
           /\ pc = "done" => result = "CommandError"

C10_Witness ==
    /\ Conflict
    /\ pc = "done" /\ result = "CommandError"
    /\ options.remove /\ options.yes
    /\ \E f \in WhlOnDisk : \E i \in 1..Len(reqs) : SelectorMatches(f, reqs[i])

(***************************************************************************)
(* Size formatting.                                                        *)
(***************************************************************************)
\* The suffixes of unit_formatter = ('%db', '%.1fkb', '%.1fMb', '%.1fGb', '%.1fTb')
UNITS == <<"b", "kb", "Mb", "Gb", "Tb">>

\* The text returned: '%d' for bytes, '%.1f' after a division, and the suffix.
SizeText(out) ==
    [number |-> IF out.unit_index = 0 THEN <<out.whole>>
                ELSE <<out.whole, out.tenth>>,
     unit |-> UNITS[out.unit_index + 1]]

Text(number, unit) == [number |-> number, unit |-> unit]

Returned(ds) == fn.pc = "done" /\ fn.nb = ds

\* C11, as stated: human_readable_size renders 0 as '0b', 1024 as '1.0kb'
\* and 1048576 as '1.0Mb'.
C11_AsStated ==
    /\ Returned(<<0>>) => SizeText(fn.out) = Text(<<0>>, "b")
    /\ Returned(<<1, 0>>) => SizeText(fn.out) = Text(<<1, 0>>, "kb")
    /\ Returned(<<1, 0, 0>>) => SizeText(fn.out) = Text(<<1, 0>>, "Mb")

\* C11, amended: human_readable_size renders 0 as '0b', 1024 as '1024b'
\* and 1048576 as '1024.0kb' (a value is divided only while it exceeds 1024).
C11_BoundaryValues ==
    /\ Returned(<<0>>) => SizeText(fn.out) = Text(<<0>>, "b")
    /\ Returned(<<1, 0>>) => SizeText(fn.out) = Text(<<1024>>, "b")
    /\ Returned(<<1, 0, 0>>) => SizeText(fn.out) = Text(<<1024, 0>>, "kb")

C11_Witness == Returned(<<1, 0, 0>>) /\ fn.divisions = 1

\* n > 1024^j, on the base-1024 digits of n.
NbExceedsPow(ds, j) ==
    \/ Len(ds) > j + 1
    \/ /\ Len(ds) = j + 1
       /\ \/ ds[1] > 1
          \/ \E i \in 2..Len(ds) : ds[i] > 0

\* C12: for every non-negative n the unit index is the number of divisions
\* performed while the value exceeds 1024, at most 4 divisions are performed,
\* every n <= 1024 is rendered as integer bytes, and no unit beyond the
\* fifth (Tb) is selected.
C12_UnitSelection ==
    /\ fn.divisions <= 4
    /\ fn.pc = "done" =>
          /\ fn.out.unit_index = fn.divisions
          /\ fn.divisions = Cardinality({j \in 1..4 : NbExceedsPow(fn.nb, j)})
          /\ fn.out.unit_index + 1 \in DOMAIN UNITS
          /\ ~NbExceedsPow(fn.nb, 1) =>
                SizeText(fn.out) = Text(<<FromDigits(fn.nb)>>, "b")

C12_Witness ==
    /\ fn.pc = "done"
    /\ NbExceedsPow(fn.nb, 5)
    /\ fn.out.unit_index = 4

(***************************************************************************)
(* Listing.                                                                *)
(***************************************************************************)
\* A listing invocation (no --remove, no --summary) that has ended.
ListingEnded ==
    /\ pc = "done"
    /\ ~options.remove /\ ~options.summary
    /\ ~StatsOnly /\ ~Conflict

EntryAt == {i \in 1..Len(trace) : trace[i].kind = "entry"}

HeaderAt == {i \in 1..Len(trace) : trace[i].kind = "header"}

EntryName(i) == WheelOf[trace[i].arg.file].name

\* The entry at i is the first of its group.
FirstOfGroup(i) == \A j \in EntryAt : j < i => EntryName(j) # EntryName(i)

\* C13: in listing mode every matched record is printed exactly once, in
\* ascending order of (name, version, containing directory), and each distinct
\* name (original casing) is printed as a header exactly once, immediately
\* before the first entry of its group.
C13_ListingGrouped ==
    ListingEnded =>
        /\ \A f \in Matched :
              Cardinality({i \in EntryAt : trace[i].arg.file = f}) = 1
        /\ \A i \in EntryAt : trace[i].arg.file \in Matched
        /\ \A i, j \in EntryAt :
              i < j => ~KeyLess(trace[j].arg.file, trace[i].arg.file)
        /\ \A i \in EntryAt :
              FirstOfGroup(i) <=>
                  (i > 1 /\ (i - 1) \in HeaderAt
                         /\ trace[i - 1].arg = EntryName(i))
        /\ \A h \in HeaderAt : (h + 1) \in EntryAt /\ FirstOfGroup(h + 1)

(***************************************************************************)
(* Effects on the cache directory.                                         *)
(***************************************************************************)
\* C14: an invocation without --remove leaves the cache directory as it was
\* (no file or directory created or deleted); storage changes only in the
\* deletion loop of a --remove invocation whose answer is 'yes'.
C14_OnlyEvictionWrites ==
    /\ ~options.remove => (files = files0 /\ dirs = dirs0)
    /\ (files # files0 \/ dirs # dirs0) =>
          /\ options.remove
          /\ response = "yes"
          /\ pc \in {"delete", "done"}
          /\ files \subseteq files0 /\ dirs = dirs0

C14_Witness ==
    /\ ListingEnded /\ result = SUCCESS
    /\ Cardinality(EntryAt) >= 2
    /\ files = files0

(***************************************************************************)
(* Failing deletions.                                                      *)
(***************************************************************************)
FailedAt == {i \in 1..Len(trace) : trace[i].kind = "remove_failed"}

\* The files os.remove was called on.
Attempted ==
    {trace[i].arg : i \in {j \in 1..Len(trace) :
                              trace[j].kind \in {"remove", "remove_failed"}}}

\* C15: in a confirmed --remove invocation in which the deletion of one
\* matched file fails, the deletion of every other matched file is still
\* attempted.
C15_FailureIsolated ==
    (pc = "done" /\ options.remove /\ response = "yes" /\ FailedAt # {})
        => \A f \in Matched : RemoveTarget(f) \in Attempted

(***************************************************************************)
(* Declined confirmation.                                                  *)
(***************************************************************************)
\* A --remove invocation without --yes has ended on an answer other than
\* 'yes'.
Declined ==
    /\ pc = "done"
    /\ options.remove /\ ~options.yes
    /\ response = "no"

PromptAt == {i \in 1..Len(trace) : trace[i].kind = "prompt"}

\* C16, as stated: a declined confirmation is not an error; the invocation
\* logs that no action was taken and returns success.
C16_AsStated ==
    Declined =>
        /\ result = SUCCESS
        /\ \E i \in 1..Len(trace) :
              /\ trace[i].kind = "no_action"
              /\ \A p \in PromptAt : p < i

\* C16, amended: a declined confirmation is not an error; nothing is logged
\* after the prompt, nothing is deleted, and the invocation returns success.
C16_DeclineSucceeds ==
    Declined =>
        /\ result = SUCCESS
        /\ PromptAt = {Len(trace)}
        /\ trace[Len(trace)].arg = "no"
        /\ Attempted = {}
        /\ files = files0

C16_Witness ==
    /\ Declined
    /\ records # <<>>
    /\ trace[Len(trace)].kind = "prompt"

(***************************************************************************)
(* Summary.                                                                *)
(***************************************************************************)
SummaryAt == {i \in 1..Len(trace) : trace[i].kind = "summary"}

\* The sum of the sizes of a set of files.
RECURSIVE TotalSize(_)
TotalSize(S) ==
    IF S = {} THEN 0
    ELSE LET f == CHOOSE x \in S : TRUE
         IN  FileTab[f].size + TotalSize(S \ {f})

\* C17: --summary reports the number of matched records and the
\* human-readable form of the sum of their sizes; with nothing matched it
\* reports 0 and '0b'.
C17_SummaryTotals ==
    \A i \in SummaryAt :
        /\ trace[i].arg.count = Cardinality(Matched)
        /\ trace[i].arg.size = human_readable_size(TotalSize(Matched))
        /\ Matched = {} =>
              /\ trace[i].arg.count = 0
              /\ SizeText(trace[i].arg.size) = Text(<<0>>, "b")

C17_Witness ==
    /\ pc = "done" /\ result = SUCCESS
    /\ SummaryAt # {}
    /\ Cardinality(Matched) >= 3
    /\ \A i \in SummaryAt :
          SizeText(trace[i].arg.size) = Text(<<1, 0>>, "Mb")

(***************************************************************************)
(* Reads of the link file.                                                 *)
(***************************************************************************)
\* The entries printed for the records of directory d.
EntriesOf(d) == {i \in EntryAt : trace[i].arg.path = d}

LinkFiles(F) == {f \in F : basename(f) = LinkName}

\* C19: a --remove invocation deletes only matched wheel files: every link
\* file and every directory present before is still present after, also a
\* directory left without any wheel.
C19_LinksAndDirsKept ==
    options.remove =>
        /\ dirs = dirs0
        /\ LinkFiles(files0) \subseteq files
        /\ files \subseteq files0
        /\ (files0 \ files) \subseteq {RemoveTarget(r) : r \in Matched}
        /\ \A f \in files0 \ files : IsWhlName(basename(f))

C19_Witness ==
    /\ pc = "done" /\ options.remove /\ result = SUCCESS
    /\ DirA \in dirs
    /\ WhlFilesIn(DirA) = <<>>
    /\ LinkFiles(files) # {}
    /\ Cardinality(files0 \ files) >= 2

DeletingAt == {i \in 1..Len(trace) : trace[i].kind = "deleting"}

\* C20: a failing deletion in a confirmed --remove invocation is not caught:
\* the invocation ends there with the error instead of the success code, and
\* the 'Deleting:' entry, logged before with all the target paths, is intact.
C20_FailurePropagates ==
    \A i \in FailedAt :
        /\ pc = "done" /\ result = "OSError"
        /\ i = Len(trace)
        /\ Cardinality(DeletingAt) = 1
        /\ \A j \in DeletingAt :
              /\ j < i
              /\ trace[j].arg = wheel_paths(records)
              /\ \A k \in (j + 1)..Len(trace) :
                    /\ trace[k].kind \in {"remove", "remove_failed"}
                         => \E r \in Matched : trace[k].arg = RemoveTarget(r)

C20_Witness ==
    /\ pc = "done" /\ result = "OSError"
    /\ FailedAt # {}
    /\ Removed # {}
    /\ Len(records) >= 3

(***************************************************************************)
(* Deletion order.                                                         *)
(***************************************************************************)
\* The files of the first k matched records, in iteration order.
PrefixFiles(k) == {records[i] : i \in 1..k}

\* C21: at every point of a confirmed --remove invocation the files deleted
\* so far are exactly a prefix of the matched list in iteration order, and
\* no step of the invocation, up to and including its end, puts a deleted
\* file back.
C21_DeletedIsPrefix ==
    /\ [](Confirmed(response) =>
             \E k \in 0..Len(records) : files0 \ files = PrefixFiles(k))
    /\ [][files' \subseteq files]_vars

C21_Witness ==
    /\ pc = "done" /\ result = "OSError"
    /\ Confirmed(response)
    /\ Len(records) >= 3
    /\ files0 \ files = PrefixFiles(2)

(***************************************************************************)
(* Two invocations on one cache directory.                                 *)
(***************************************************************************)
\* The file this invocation is about to stat (new: the next name of the
\* directory listing; old: the next collected name, once parsed) or to
\* delete has been deleted by the other invocation.
StatsMissing ==
    \/ /\ impl = "new" /\ pc = "walk"
       /\ pending # <<>>
       /\ Head(pending) \in OtherDeleted
    \/ /\ pc = "iter"
       /\ idx <= Len(data.wheel_filenames)
       /\ WheelOf[data.wheel_filenames[idx]].valid
       /\ data.wheel_filenames[idx] \in OtherDeleted

DeletesMissing ==
    /\ pc = "delete"
    /\ idx <= Len(records)
    /\ records[idx] \in OtherDeleted

\* C22: with the directory unlocked, another invocation can delete a file
\* after this one has discovered it and before this one stats or deletes it;
\* the step of this invocation that then stats or deletes the file ends it
\* with an error instead of letting it complete.
C22_RaceFails ==
    [][((StatsMissing \/ DeletesMissing) /\ files' = files)
          => (pc' = "done" /\ result' = "OSError")]_vars

C22_Witness ==
    /\ pc = "done" /\ result = "OSError"
    /\ impl = "new"
    /\ pending # <<>>
    /\ Head(pending) \in OtherDeleted
    /\ scan # <<>>

(***************************************************************************)
(* Algebra of the filters.                                                 *)
(***************************************************************************)
\* C23: filtering is idempotent: for every list of records, selectors and
\* age cutoff, the filter applied to its own result, with the same selectors
\* and cutoff, gives that result again.
C23_FilterIdempotent ==
    fn.pc = "twice" =>
        /\ fn.twice = fn.once
        /\ Range(fn.twice) = Range(fn.once)

C23_Witness ==
    /\ fn.pc = "twice"
    /\ fn.reqs # <<>> /\ AgeFilterApplies(fn.nas)
    /\ fn.once # <<>>
    /\ Len(fn.once) < Len(fn.recs)

\* C24: selector matching does not depend on the case of a package name nor
\* on "-" versus "_" in it, on either side: a selector that matches a record
\* still matches it with its name respelled, and matches a record whose
\* name is respelled.
C24_MatchIgnoresSpelling ==
    fn.pc = "varied" =>
        /\ fn.given.new => fn.varied.new
        /\ fn.given.old => fn.varied.old

C24_Witness ==
    /\ fn.pc = "varied"
    /\ fn.side = "selector" /\ fn.reqs = <<ReqBare>>
    /\ fn.variant = <<"A", "_", "B">>
    /\ fn.given.new /\ fn.given.old

(***************************************************************************)
(* The two implementations side by side.                                   *)
(***************************************************************************)
\* What the newer implementation matches on the cache content found at the
\* start, with the selectors of this invocation and no age cutoff.
NewerMatches == Range(RunFilter(SeqOfSet(WhlOnDisk), <<>>, clock, reqs))

\* A --remove --yes invocation has deleted all it matched.
EvictionCompleted ==
    /\ pc = "done" /\ result = SUCCESS
    /\ options.remove /\ options.yes

\* C25: an invocation of the older implementation that reaches the matching
\* stage matches the files the newer implementation matches with the same
\* selectors and no age cutoff, and deletes the same files under
\* --remove --yes.
C25_NewerGeneralizesOlder ==
    /\ (impl = "old" /\ FilterDone) =>
          /\ Matched = NewerMatches
          /\ EvictionCompleted => files0 \ files = NewerMatches
    /\ (impl = "new" /\ FilterDone /\ options.not_accessed_since = <<>>) =>
          /\ Matched = NewerMatches
          /\ EvictionCompleted => files0 \ files = NewerMatches

(***************************************************************************)
(* Termination.                                                            *)
(***************************************************************************)
\* The number of calls of os.remove on file f.
AttemptsOf(f) ==
    Cardinality({i \in 1..Len(trace) :
                    /\ trace[i].kind \in {"remove", "remove_failed"}
                    /\ trace[i].arg = f})

\* C26: every invocation runs to completion: it reaches the prompt or its
\* end, and once the prompt is answered it reaches its end (success or
\* error); the directories left to scan only decrease, none is left when the
\* scan is over, and os.remove is called at most once per matched file.
C26_RunsToCompletion ==
    /\ (pc = "start") ~> (pc \in {"ask", "done"})
    /\ (pc = "delete") ~> (pc = "done")
    /\ [](pc = "done" => result # "none")
    /\ [](pc \notin {"start", "walk"} => toVisit = {})
    /\ [](\A f \in FileIds : AttemptsOf(f) <= 1)
    /\ [][pc = "walk" => (toVisit' \subseteq toVisit
                            /\ Cardinality(toVisit')
                                 >= Cardinality(toVisit) - 1)]_vars

C26_Witness ==
    /\ pc = "done" /\ result = SUCCESS
    /\ options.remove /\ ~options.yes /\ response = "yes"
    /\ Cardinality(dirs0) = 3
    /\ Len(records) >= 3
    /\ \A f \in Matched : AttemptsOf(f) = 1

(***************************************************************************)
(* The older implementation.                                               *)
(***************************************************************************)
\* The directories of the cache that hold a wheel file or a link file.
OriginDirs ==
    {d \in dirs0 : /\ IsUnder(d, WheelsRoot) \/ d = WheelsRoot
                   /\ \E f \in files0 :
                         /\ dirname(f) = d
                         /\ IsWhlName(basename(f)) \/ basename(f) = LinkName}

\* C27: the older implementation, run with neither selectors nor --all, only
\* logs the basic statistics and returns the success code; it deletes no
\* file, also under --remove --yes.
C27_StatsOnlyDeletesNothing ==
    StatsOnly =>
        /\ files = files0 /\ dirs = dirs0
        /\ records = <<>>
        /\ pc = "done" =>
              /\ result = SUCCESS
              /\ Len(trace) = 1
              /\ trace[1].kind = "stats"
              /\ trace[1].arg = [wheel_nb |-> Cardinality(WhlOnDisk),
                                 link_nb |-> Cardinality(OriginDirs)]
        /\ pc # "done" => trace = <<>>

C27_Witness ==
    /\ StatsOnly /\ pc = "done"
    /\ options.remove /\ options.yes
    /\ Cardinality(WhlOnDisk) >= 3
    /\ Cardinality(OriginDirs) = 2

(***************************************************************************)
(* Listing order and version order.                                        *)
(***************************************************************************)
\* C28: the listing order agrees with the order of parsed versions: of two
\* listed records with the same name, the one with the smaller parsed
\* version is listed first.
C28_ListingFollowsVersions ==
    (ListingEnded /\ result = SUCCESS) =>
        \A i, j \in EntryAt :
            (/\ EntryName(i) = EntryName(j)
             /\ VerLess(version(trace[i].arg.file), version(trace[j].arg.file)))
                => i < j

(***************************************************************************)
(* One record per file.                                                    *)
(***************************************************************************)
NoDuplicates(s) == \A i, j \in 1..Len(s) : i # j => s[i] # s[j]

\* C29: within one invocation the list of records built by the scan, and so
\* the list logged before the deletion and the deletion loop, holds each
\* file path at most once; the invocation never calls os.remove on a file it
\* has deleted itself.
C29_EachFileOnce ==
    /\ NoDuplicates(scan)
    /\ NoDuplicates(data.wheel_filenames)
    /\ NoDuplicates(records)
    /\ \A i \in DeletingAt : NoDuplicates(trace[i].arg)
    /\ \A f \in FileIds : AttemptsOf(f) <= 1
    /\ \A i \in FailedAt : trace[i].arg \notin OwnDeleted

C29_Witness ==
    /\ pc = "done" /\ result = SUCCESS
    /\ impl = "new" /\ options.remove
    /\ Len(records) = 4
    /\ Cardinality(OwnDeleted) = 4

(***************************************************************************)
(* collect_infos and the lookup in iter_record.                            *)
(***************************************************************************)
CollectedDirs == {link_path(data.wheel_filenames[i]) :
                     i \in 1..Len(data.wheel_filenames)}

\* C30: in the older implementation, whatever directories collect_infos has
\* been applied to, the directory of every path of data['wheel_filenames']
\* is a key of data['links'] (with the value None when the directory has no
\* link file), so that data['links'][link_path] in iter_record never fails.
C30_LinkLookupNeverFails ==
    impl = "old" =>
        /\ CollectedDirs \subseteq DOMAIN data.links
        /\ \A d \in CollectedDirs :
               LinkFileOf(d) = {} => data.links[d] = None
        /\ result # "KeyError"

C30_Witness ==
    /\ impl = "old" /\ pc = "done" /\ result = SUCCESS
    /\ idx > Len(data.wheel_filenames)
    /\ \E i \in 1..Len(records) :
           /\ LinkFileOf(link_path(records[i])) = {}
           /\ data.links[link_path(records[i])] = None
    /\ \E d \in CollectedDirs : data.links[d] # None

=============================================================================
